---- MODULE Spec2Model ----
(***************************************************************************)
(* Model of novartc/gomedia's VP8/VP9 header parsers (go-codec/vp8.go,    *)
(* go-codec/vp9.go and the second VP8 implementation) and of the RTP VP8  *)
(* depacketizer VP8UnPacker (second half of go-codec/vp9.go).             *)
(***************************************************************************)
EXTENDS Integers, Sequences, FiniteSets, TLC

VARIABLES
    frameBuffer,    \* VP8UnPacker.frameBuffer: sequence of [b, ts, fresh] (byte, source packet's timestamp, not yet handed to onFrame)
    timestamp,      \* VP8UnPacker.timestamp (uint32)
    lastSequence,   \* VP8UnPacker.lastSequence (uint16)
    lost,           \* VP8UnPacker.lost
    building,       \* VP8UnPacker.building
    events,         \* callbacks made by the last UnPack call, in order
    err,            \* value returned by the last UnPack call
    groupCount,     \* observer: packets received for the group under construction
    groupBytes,     \* observer: post-descriptor bytes of those packets, by the descriptor rule of RFC 7741
    ended,          \* observer: the groups the last UnPack call ended, in order
    arrived,        \* observer: what the last packet looked like on arrival
    frame,          \* input of the header parsers
    res             \* the last header-parser call: [op, err, val]

vars == <<frameBuffer, timestamp, lastSequence, lost, building, events, err,
          groupCount, groupBytes, ended, arrived, frame, res>>

unpackerVars == <<frameBuffer, timestamp, lastSequence, lost, building, events,
                  err, groupCount, groupBytes, ended, arrived>>

parserVars == <<frame, res>>

(***************************************************************************)
(* Bounds of the model.                                                    *)
(***************************************************************************)
\* longest run of frame data that follows a payload descriptor
MaxData == 2
\* packets the sender puts into one group before it ends it
MaxGroup == 2

(***************************************************************************)
(* Bytes and bits.                                                         *)
(***************************************************************************)
\* (b & mask) > 0 for a one-bit mask
HasBit(b, mask) == (b \div mask) % 2 = 1

U16 == 65536

(***************************************************************************)
(* The packets the model feeds to UnPack.                                  *)
(***************************************************************************)
SeqNums == {65535, 0, 1}
Timestamps == {1, 2}

DataByte(i) == IF i % 2 = 1 THEN 170 ELSE 187
DataRuns == { [i \in 1..n |-> DataByte(i)] : n \in 0..MaxData }

ExtBytes == {0, 128, 64, 32, 16, 240}

PictureIds(e) == IF HasBit(e, 128) THEN {<<1>>, <<129, 2>>} ELSE {<<>>}
Tl0(e) == IF HasBit(e, 64) THEN <<3>> ELSE <<>>
TidKey(e) == IF HasBit(e, 32) \/ HasBit(e, 16) THEN <<4>> ELSE <<>>

Descriptors ==
    {<<0>>, <<16>>} \cup
    UNION { { <<128, e>> \o p \o Tl0(e) \o TidKey(e) : p \in PictureIds(e) } : e \in ExtBytes }

\* every descriptor followed by data, cut at every length (0 = empty payload)
Payloads ==
    UNION { { SubSeq(d \o t, 1, n) : n \in 0..Len(d \o t) } :
            d \in Descriptors, t \in DataRuns }

Packets == [seq : SeqNums, ts : Timestamps, marker : {0, 1}, payload : Payloads]

(***************************************************************************)
(* VP8UnPacker.                                                            *)
(***************************************************************************)
Unpacker == [frameBuffer |-> frameBuffer, timestamp |-> timestamp,
             lastSequence |-> lastSequence, lost |-> lost, building |-> building]

NewVP8UnPacker == [frameBuffer |-> <<>>, timestamp |-> 0, lastSequence |-> 0,
                   lost |-> FALSE, building |-> FALSE]

\* frameBuffer.Bytes()
Bytes(buf) == [i \in 1..Len(buf) |-> buf[i].b]

\* frameBuffer.Write(p) for bytes that arrived in a packet of timestamp ts
Write(buf, p, ts) == buf \o [i \in 1..Len(p) |-> [b |-> p[i], ts |-> ts, fresh |-> TRUE]]

\* the buffer after its bytes were handed to onFrame
Handed(buf) == [i \in 1..Len(buf) |-> [buf[i] EXCEPT !.fresh = FALSE]]

\* frameBuffer.Reset()
Reset(buf) == <<>>

RtpEvent(p) == [kind |-> "rtp", bytes |-> <<>>, ts |-> p.ts, lost |-> FALSE]
FrameEvent(bytes, ts, l) == [kind |-> "frame", bytes |-> bytes, ts |-> ts, lost |-> l]

\* StartOrContinue without line 247 (lost survives into the new group)
StartOrContinueStaleLost(u, p) ==
    IF ~u.building \/ p.ts # u.timestamp
    THEN LET flush == u.building /\ Len(u.frameBuffer) > 0
         IN  [u |-> [frameBuffer |-> Reset(IF flush THEN Handed(u.frameBuffer)
                                                    ELSE u.frameBuffer),
                     timestamp |-> p.ts, lastSequence |-> p.seq,
                     lost |-> u.lost, building |-> TRUE],
              events |-> IF flush
                         THEN <<FrameEvent(Bytes(u.frameBuffer), u.timestamp, TRUE)>>
                         ELSE <<>>]
    ELSE [u |-> [u EXCEPT !.lost = u.lost \/ ((u.lastSequence + 1) % U16 # p.seq),
                          !.lastSequence = p.seq],
          events |-> <<>>]

\* StartOrContinue with the successor computed in a wider integer type
StartOrContinueNoWrap(u, p) ==
    IF ~u.building \/ p.ts # u.timestamp
    THEN LET flush == u.building /\ Len(u.frameBuffer) > 0
         IN  [u |-> [frameBuffer |-> Reset(IF flush THEN Handed(u.frameBuffer)
                                                    ELSE u.frameBuffer),
                     timestamp |-> p.ts, lastSequence |-> p.seq,
                     lost |-> FALSE, building |-> TRUE],
              events |-> IF flush
                         THEN <<FrameEvent(Bytes(u.frameBuffer), u.timestamp, TRUE)>>
                         ELSE <<>>]
    ELSE [u |-> [u EXCEPT !.lost = u.lost \/ (u.lastSequence + 1 # p.seq),
                          !.lastSequence = p.seq],
          events |-> <<>>]

\* StartOrContinue without line 246 (the flushed bytes stay in the buffer)
StartOrContinueNoReset(u, p) ==
    IF ~u.building \/ p.ts # u.timestamp
    THEN LET flush == u.building /\ Len(u.frameBuffer) > 0
         IN  [u |-> [frameBuffer |-> IF flush THEN Handed(u.frameBuffer)
                                              ELSE u.frameBuffer,
                     timestamp |-> p.ts, lastSequence |-> p.seq,
                     lost |-> FALSE, building |-> TRUE],
              events |-> IF flush
                         THEN <<FrameEvent(Bytes(u.frameBuffer), u.timestamp, TRUE)>>
                         ELSE <<>>]
    ELSE [u |-> [u EXCEPT !.lost = u.lost \/ ((u.lastSequence + 1) % U16 # p.seq),
                          !.lastSequence = p.seq],
          events |-> <<>>]

\* lines 237-254: frame-boundary detection and sequence continuity
StartOrContinue(u, p) ==
    IF ~u.building \/ p.ts # u.timestamp
    THEN LET flush == u.building /\ Len(u.frameBuffer) > 0
         IN  [u |-> [frameBuffer |-> Reset(IF flush THEN Handed(u.frameBuffer)
                                                    ELSE u.frameBuffer),
                     timestamp |-> p.ts, lastSequence |-> p.seq,
                     lost |-> FALSE, building |-> TRUE],
              events |-> IF flush
                         THEN <<FrameEvent(Bytes(u.frameBuffer), u.timestamp, TRUE)>>
                         ELSE <<>>]
    ELSE [u |-> [u EXCEPT !.lost = u.lost \/ ((u.lastSequence + 1) % U16 # p.seq),
                          !.lastSequence = p.seq],
          events |-> <<>>]

\* HeaderLength taking every picture ID for a 7-bit one (M bit not consulted)
HeaderLengthShortId(payload) ==
    IF ~HasBit(payload[1], 128)
    THEN [err |-> "nil", len |-> 1]
    ELSE IF Len(payload) < 2
    THEN [err |-> "invalid vp8 payload: short extended header", len |-> 1]
    ELSE LET extHdr == payload[2]
             h2 == 2
         IN  IF HasBit(extHdr, 128) /\ Len(payload) < h2 + 1
             THEN [err |-> "invalid vp8 payload: short picture id", len |-> h2]
             ELSE LET h3 == IF HasBit(extHdr, 128) THEN h2 + 1 ELSE h2
                      h4 == IF HasBit(extHdr, 64) THEN h3 + 1 ELSE h3
                      h5 == IF HasBit(extHdr, 32) \/ HasBit(extHdr, 16) THEN h4 + 1 ELSE h4
                  IN  [err |-> "nil", len |-> h5]

\* lines 256-281: length of the VP8 payload descriptor, or the error returned
HeaderLength(payload) ==
    IF ~HasBit(payload[1], 128)
    THEN [err |-> "nil", len |-> 1]
    ELSE IF Len(payload) < 2
    THEN [err |-> "invalid vp8 payload: short extended header", len |-> 1]
    ELSE LET extHdr == payload[2]
             h2 == 2
         IN  IF HasBit(extHdr, 128) /\ Len(payload) < h2 + 1
             THEN [err |-> "invalid vp8 payload: short picture id", len |-> h2]
             ELSE LET h3 == IF HasBit(extHdr, 128)
                            THEN (IF HasBit(payload[h2 + 1], 128) THEN h2 + 2 ELSE h2 + 1)
                            ELSE h2
                      h4 == IF HasBit(extHdr, 64) THEN h3 + 1 ELSE h3
                      h5 == IF HasBit(extHdr, 32) \/ HasBit(extHdr, 16) THEN h4 + 1 ELSE h4
                  IN  [err |-> "nil", len |-> h5]

\* lines 283-287: append the bytes after the descriptor, or mark the group lost
AppendPayload(u, p, headerLength) ==
    IF Len(p.payload) < headerLength
    THEN [u EXCEPT !.lost = TRUE]
    ELSE [u EXCEPT !.frameBuffer =
              Write(u.frameBuffer, SubSeq(p.payload, headerLength + 1, Len(p.payload)), p.ts)]

\* Marker emitting only a non-empty buffer, as the flush of line 238 does
MarkerSkipsEmpty(u, p) ==
    IF p.marker = 1
    THEN [u |-> [u EXCEPT !.building = FALSE, !.frameBuffer = Reset(Handed(u.frameBuffer))],
          events |-> IF Len(u.frameBuffer) > 0
                     THEN <<FrameEvent(Bytes(u.frameBuffer), u.timestamp, u.lost)>>
                     ELSE <<>>]
    ELSE [u |-> u, events |-> <<>>]

\* lines 289-295: marker handling
Marker(u, p) ==
    IF p.marker = 1
    THEN [u |-> [u EXCEPT !.building = FALSE, !.frameBuffer = Reset(Handed(u.frameBuffer))],
          events |-> <<FrameEvent(Bytes(u.frameBuffer), u.timestamp, u.lost)>>]
    ELSE [u |-> u, events |-> <<>>]

\* UnPack calling onRtp before the empty-payload check
UnPackObservesFirst(u, p) ==
    IF Len(p.payload) < 1
    THEN [u |-> u, events |-> <<RtpEvent(p)>>, err |-> "vp8 rtp packet payload is empty"]
    ELSE LET s == StartOrContinue(u, p)
             h == HeaderLength(p.payload)
         IN  IF h.err # "nil"
             THEN [u |-> s.u, events |-> <<RtpEvent(p)>> \o s.events, err |-> h.err]
             ELSE LET m == Marker(AppendPayload(s.u, p, h.len), p)
                  IN  [u |-> m.u, events |-> <<RtpEvent(p)>> \o s.events \o m.events,
                       err |-> "nil"]

\* lines 223-298: the whole call (both callbacks installed)
UnPack(u, p) ==
    IF Len(p.payload) < 1
    THEN [u |-> u, events |-> <<>>, err |-> "vp8 rtp packet payload is empty"]
    ELSE LET s == StartOrContinue(u, p)
             h == HeaderLength(p.payload)
         IN  IF h.err # "nil"
             THEN [u |-> s.u, events |-> <<RtpEvent(p)>> \o s.events, err |-> h.err]
             ELSE LET m == Marker(AppendPayload(s.u, p, h.len), p)
                  IN  [u |-> m.u, events |-> <<RtpEvent(p)>> \o s.events \o m.events,
                       err |-> "nil"]

(***************************************************************************)
(* The depacketizer as a state machine.                                    *)
(***************************************************************************)
InitUnpacker ==
    /\ frameBuffer = NewVP8UnPacker.frameBuffer
    /\ timestamp = NewVP8UnPacker.timestamp
    /\ lastSequence = NewVP8UnPacker.lastSequence
    /\ lost = NewVP8UnPacker.lost
    /\ building = NewVP8UnPacker.building
    /\ events = <<>>
    /\ err = "nil"
    /\ groupCount = 0
    /\ groupBytes = <<>>
    /\ ended = <<>>
    /\ arrived = [marker |-> 0, empty |-> TRUE, truncated |-> FALSE]

NoCall == [op |-> "none", err |-> "nil", val |-> <<>>]

InitParser ==
    /\ frame = <<>>
    /\ res = NoCall

Init == InitUnpacker /\ InitParser

Continues(u, p) == u.building /\ p.ts = u.timestamp

\* payload[i], reading 0 past the end
At(payload, i) == IF i <= Len(payload) THEN payload[i] ELSE 0

\* RFC 7741 section 4.2: octets of the payload descriptor announced by its bits
DescriptorLength(payload) ==
    IF ~HasBit(At(payload, 1), 128) THEN 1
    ELSE 2 + (IF HasBit(At(payload, 2), 128)
              THEN (IF HasBit(At(payload, 3), 128) THEN 2 ELSE 1) ELSE 0)
           + (IF HasBit(At(payload, 2), 64) THEN 1 ELSE 0)
           + (IF HasBit(At(payload, 2), 32) \/ HasBit(At(payload, 2), 16) THEN 1 ELSE 0)

\* payload[d:] when the payload holds its whole descriptor, nothing otherwise
PostDescriptor(payload) ==
    IF Len(payload) >= DescriptorLength(payload)
    THEN SubSeq(payload, DescriptorLength(payload) + 1, Len(payload))
    ELSE <<>>

\* bytes of the group packet p belongs to, p included
GroupWith(p) == (IF Continues(Unpacker, p) THEN groupBytes ELSE <<>>) \o PostDescriptor(p.payload)

\* the groups a call ends: the open one when p has another timestamp, then
\* p's own when the call leaves the unpacker Idle
EndedBy(p, r) ==
    (IF building /\ p.ts # timestamp
     THEN <<[by |-> "timestamp", ts |-> timestamp, bytes |-> groupBytes,
             empty |-> Len(frameBuffer) = 0]>>
     ELSE <<>>)
    \o (IF ~r.u.building
        THEN <<[by |-> "marker", ts |-> p.ts, bytes |-> GroupWith(p), empty |-> FALSE]>>
        ELSE <<>>)

UnPackCall(p) ==
    /\ (Len(p.payload) > 0 /\ Continues(Unpacker, p)) => groupCount < MaxGroup
    /\ \E r \in {UnPack(Unpacker, p)} :
           /\ frameBuffer' = r.u.frameBuffer
           /\ timestamp' = r.u.timestamp
           /\ lastSequence' = r.u.lastSequence
           /\ lost' = r.u.lost
           /\ building' = r.u.building
           /\ events' = r.events
           /\ err' = r.err
           /\ arrived' = [marker |-> p.marker, empty |-> Len(p.payload) = 0,
                          truncated |-> Len(p.payload) < DescriptorLength(p.payload)]
           /\ IF Len(p.payload) < 1
              THEN /\ ended' = <<>>
                   /\ UNCHANGED <<groupCount, groupBytes>>
              ELSE /\ ended' = EndedBy(p, r)
                   /\ groupCount' = IF ~r.u.building THEN 0
                                    ELSE IF Continues(Unpacker, p) THEN groupCount + 1 ELSE 1
                   /\ groupBytes' = IF ~r.u.building THEN <<>> ELSE GroupWith(p)
    /\ UNCHANGED parserVars

Next == \E p \in Packets : UnPackCall(p)

Spec == Init /\ [][Next]_vars

(***************************************************************************)
(* VP8 header parsers: go-codec/vp8.go and the second implementation.      *)
(***************************************************************************)
\* frame[n:], the Go slice expression
SliceFrom(f, n) == SubSeq(f, n + 1, Len(f))

DecodeFrameTag(f) ==
    IF Len(f) < 3
    THEN [err |-> "frame bytes < 3", tag |-> <<>>]
    ELSE LET tmp == f[3] * 65536 + f[2] * 256 + f[1]
         IN  [err |-> "nil",
              tag |-> [FrameType |-> tmp % 2,
                       Version |-> (tmp \div 2) % 8,
                       Display |-> (tmp \div 16) % 2,
                       FirstPartSize |-> (tmp \div 32) % 524288]]

DecodeKeyFrameHead(f) ==
    IF Len(f) < 7
    THEN [err |-> "frame bytes < 3", head |-> <<>>]
    ELSE IF f[1] # 157 \/ f[2] # 1 \/ f[3] # 42
    THEN [err |-> "not find Start code", head |-> <<>>]
    ELSE [err |-> "nil",
          head |-> [Width |-> (f[5] % 64) * 256 + f[4],
                    HorizScale |-> f[5] \div 64,
                    Height |-> (f[7] % 64) * 256 + f[6],
                    VertScale |-> f[7] \div 64]]

IsVP8KeyFrame(f) ==
    LET t == DecodeFrameTag(f)
    IN  IF t.err # "nil" THEN FALSE ELSE t.tag.FrameType = 0

\* vp8.go: no key-frame check; frame[3:] panics on a frame shorter than 3 bytes
GetVP8Resloution(f) ==
    IF Len(f) < 3
    THEN [err |-> "panic: slice bounds out of range", val |-> <<>>]
    ELSE LET h == DecodeKeyFrameHead(SliceFrom(f, 3))
         IN  IF h.err # "nil"
             THEN [err |-> h.err, val |-> <<0, 0>>]
             ELSE [err |-> "nil", val |-> <<h.head.Width, h.head.Height>>]

\* vp8.go: the 8-byte record, built for any frame whose tag decodes
CreateVP8VpcCExtradata(f) ==
    LET t == DecodeFrameTag(f)
    IN  IF t.err # "nil"
        THEN [err |-> t.err, val |-> <<>>]
        ELSE [err |-> "nil", val |-> <<t.tag.Version, 0, 129, 2, 2, 2, 0, 0>>]

\* second implementation
IsKeyFrame(f) ==
    LET t == DecodeFrameTag(f)
    IN  IF t.err # "nil" THEN FALSE ELSE t.tag.FrameType = 0

GetResloution(f) ==
    IF ~IsKeyFrame(f)
    THEN [err |-> "the frame is not Key frame", val |-> <<0, 0>>]
    ELSE LET h == DecodeKeyFrameHead(SliceFrom(f, 3))
         IN  IF h.err # "nil"
             THEN [err |-> h.err, val |-> <<0, 0>>]
             ELSE [err |-> "nil", val |-> <<h.head.Width, h.head.Height>>]

\* second implementation: the 14-byte record with the FullBox header
CreateVP8VpcCExtradataFullBox(f) ==
    IF ~IsKeyFrame(f)
    THEN [err |-> "not a keyframe", val |-> <<>>]
    ELSE LET t == DecodeFrameTag(f)
         IN  IF t.err # "nil"
             THEN [err |-> t.err, val |-> <<>>]
             ELSE [err |-> "nil",
                   val |-> <<1, 0, 0, 0, t.tag.Version, 0, 8, 0, 1, 2, 2, 2, 0, 0>>]

\* longest VP8 frame fed to the parsers (3-byte tag, 7-byte key-frame head)
MaxVP8Len == 10

\* the byte values tried at each position of a VP8 frame
VP8ByteAt(i) ==
    CASE i = 1 -> {0, 1, 16, 3}
      [] i = 4 -> {157, 0}
      [] i = 5 -> {1}
      [] i = 6 -> {42}
      [] i = 7 -> {128, 255}
      [] i = 8 -> {2, 194}
      [] i = 9 -> {208}
      [] i = 10 -> {2, 66}
      [] OTHER -> {0}

RECURSIVE FramesOfLen(_)
FramesOfLen(n) ==
    IF n = 0 THEN {<<>>}
    ELSE { f \o <<b>> : f \in FramesOfLen(n - 1), b \in VP8ByteAt(n) }

VP8Frames == UNION { FramesOfLen(n) : n \in 0..MaxVP8Len }

InitVP8 ==
    /\ InitUnpacker
    /\ frame \in VP8Frames
    /\ res = NoCall

Result(op, r) == [op |-> op, err |-> r.err, val |-> r.val]

CallGetVP8Resloution ==
    /\ res' = Result("GetVP8Resloution", GetVP8Resloution(frame))
    /\ UNCHANGED <<frame, unpackerVars>>

CallCreateVP8VpcCExtradata ==
    /\ res' = Result("CreateVP8VpcCExtradata", CreateVP8VpcCExtradata(frame))
    /\ UNCHANGED <<frame, unpackerVars>>

CallGetResloution ==
    /\ res' = Result("GetResloution", GetResloution(frame))
    /\ UNCHANGED <<frame, unpackerVars>>

CallCreateVP8VpcCExtradataFullBox ==
    /\ res' = Result("CreateVP8VpcCExtradataFullBox", CreateVP8VpcCExtradataFullBox(frame))
    /\ UNCHANGED <<frame, unpackerVars>>

NextVP8 ==
    \/ CallGetVP8Resloution
    \/ CallCreateVP8VpcCExtradata
    \/ CallGetResloution
    \/ CallCreateVP8VpcCExtradataFullBox

SpecVP8 == InitVP8 /\ [][NextVP8]_vars

\* C7: each of the four VP8 operations that need a key frame returns an
\* error and no result, without crashing, on every frame that is not a key
\* frame (inter frames and frames shorter than 3 bytes alike).
C7_KeyFrameRequired ==
    (res.op # "none" /\ ~IsVP8KeyFrame(frame)) =>
        /\ res.err # "nil"
        /\ res.err # "panic: slice bounds out of range"
        /\ res.val \in {<<>>, <<0, 0>>}

(***************************************************************************)
(* VP9 uncompressed header: go-codec/vp9.go.                               *)
(***************************************************************************)
\* bit i (0 = most significant bit of byte 0) of a byte sequence
BitAt(f, i) == (f[i \div 8 + 1] \div 2 ^ (7 - (i % 8))) % 2

RECURSIVE ReadBits(_, _, _)
ReadBits(f, pos, n) ==
    IF n = 0 THEN 0 ELSE 2 * ReadBits(f, pos, n - 1) + BitAt(f, pos + n - 1)

\* BitStream: an MSB-first cursor; a read or skip past the end fails and the
\* failure ends the parse
NewBitStream(f) == [bits |-> f, pos |-> 0, ok |-> TRUE]

GetBits(bs, n) ==
    IF ~bs.ok \/ bs.pos + n > 8 * Len(bs.bits)
    THEN [bs |-> [bs EXCEPT !.ok = FALSE], val |-> 0]
    ELSE [bs |-> [bs EXCEPT !.pos = bs.pos + n], val |-> ReadBits(bs.bits, bs.pos, n)]

SkipBits(bs, n) == GetBits(bs, n).bs

\* lines 70-77: frame marker and profile
ReadProfile(bs) ==
    LET profileHigh == GetBits(SkipBits(bs, 2), 1)
        profileLow == GetBits(profileHigh.bs, 1)
        profile == profileHigh.val * 2 + profileLow.val
    IN  [bs |-> IF profile = 3 THEN SkipBits(profileLow.bs, 1) ELSE profileLow.bs,
         profile |-> profile]

\* lines 79-89: show_existing_frame, frame_type, show_frame,
\* error_resilient_mode, sync code
SkipToColorConfig(bs) ==
    LET showExistingFrame == GetBits(bs, 1)
        s1 == IF showExistingFrame.val = 1
              THEN SkipBits(showExistingFrame.bs, 3) ELSE showExistingFrame.bs
    IN  SkipBits(SkipBits(SkipBits(SkipBits(s1, 1), 1), 1), 24)

\* ColorConfig skipping the sRGB case like any other colour space
ColorConfigNoSrgb(bs, profile) ==
    LET highBitdepth == GetBits(bs, 1)
        s1 == IF profile >= 2
              THEN (IF highBitdepth.val = 1
                    THEN SkipBits(highBitdepth.bs, 1) ELSE highBitdepth.bs)
              ELSE bs
        colorSpace == GetBits(s1, 3)
        s2 == SkipBits(colorSpace.bs, 1)
    IN  IF profile = 1 \/ profile = 3 THEN SkipBits(SkipBits(s2, 2), 1) ELSE s2

\* lines 92-111: colour config
ColorConfig(bs, profile) ==
    LET highBitdepth == GetBits(bs, 1)
        s1 == IF profile >= 2
              THEN (IF highBitdepth.val = 1
                    THEN SkipBits(highBitdepth.bs, 1) ELSE highBitdepth.bs)
              ELSE bs
        colorSpace == GetBits(s1, 3)
    IN  IF colorSpace.val # 7
        THEN LET s2 == SkipBits(colorSpace.bs, 1)
             IN  IF profile = 1 \/ profile = 3 THEN SkipBits(SkipBits(s2, 2), 1) ELSE s2
        ELSE IF profile = 1 \/ profile = 3
             THEN SkipBits(colorSpace.bs, 1) ELSE colorSpace.bs

\* lines 114-124: frame size
FrameSize(bs) ==
    LET renderAndFrameSizeDifferent == GetBits(bs, 1)
        s1 == IF renderAndFrameSizeDifferent.val = 1
              THEN SkipBits(SkipBits(renderAndFrameSizeDifferent.bs, 16), 16)
              ELSE renderAndFrameSizeDifferent.bs
        widthMinus1 == GetBits(s1, 16)
        heightMinus1 == GetBits(widthMinus1.bs, 16)
    IN  [bs |-> heightMinus1.bs, width |-> widthMinus1.val + 1,
         height |-> heightMinus1.val + 1]

\* lines 59-127: the walk; a failed read surfaces through the deferred recover
GetVP9Resloution(f) ==
    LET p == ReadProfile(NewBitStream(f))
        size == FrameSize(ColorConfig(SkipToColorConfig(p.bs), p.profile))
    IN  IF ~size.bs.ok
        THEN [err |-> "failed to parse VP9 header, likely due to out-of-bounds read",
              val |-> <<0, 0>>]
        ELSE [err |-> "nil", val |-> <<size.width, size.height>>]

(***************************************************************************)
(* The VP9 headers the model feeds to GetVP9Resloution.                    *)
(***************************************************************************)
\* trailing bytes that may be missing from a header
MaxCut == 1
\* longest frame of one repeated byte
MaxRun == 14

RECURSIVE BitsOf(_, _)
\* v as n bits, most significant first
BitsOf(v, n) == IF n = 0 THEN <<>> ELSE BitsOf(v \div 2, n - 1) \o <<v % 2>>

Rep(b, n) == [i \in 1..n |-> b]
When(c, bits) == IF c THEN bits ELSE <<>>

HeaderBits(p, s, hb, cs, r, w, h, fill) ==
    <<1, 0>> \o BitsOf(p, 2) \o When(p = 3, <<fill>>)
    \o <<s>> \o When(s = 1, Rep(fill, 3))
    \o <<0, 1, fill>>
    \o BitsOf(73, 8) \o BitsOf(131, 8) \o BitsOf(66, 8)
    \o When(p >= 2, <<hb>> \o When(hb = 1, <<fill>>))
    \o BitsOf(cs, 3)
    \o (IF cs # 7 THEN <<fill>> \o When(p \in {1, 3}, <<fill, fill, 0>>)
                  ELSE When(p \in {1, 3}, <<0>>))
    \o <<r>> \o When(r = 1, Rep(fill, 32))
    \o BitsOf(w, 16) \o BitsOf(h, 16)

\* bits packed MSB-first into bytes, the last byte padded with zeros
Pack(bits) ==
    [k \in 1..((Len(bits) + 7) \div 8) |->
        LET byteBits == [j \in 1..8 |-> IF 8 * (k - 1) + j <= Len(bits)
                                        THEN bits[8 * (k - 1) + j] ELSE 0]
        IN  byteBits[1] * 128 + byteBits[2] * 64 + byteBits[3] * 32 + byteBits[4] * 16
            + byteBits[5] * 8 + byteBits[6] * 4 + byteBits[7] * 2 + byteBits[8]]

Dimensions == {0, 1279, 719, 65535}

VP9Headers ==
    { Pack(HeaderBits(p, s, hb, cs, r, w, h, fill)) :
        p \in 0..3, s \in {0, 1}, hb \in {0, 1}, cs \in {0, 2, 7}, r \in {0, 1},
        w \in Dimensions, h \in Dimensions, fill \in {0, 1} }

VP9Frames ==
    { SubSeq(f, 1, Len(f) - k) : f \in VP9Headers, k \in 0..MaxCut }
    \cup { Rep(b, n) : b \in {0, 255, 165, 147}, n \in 0..MaxRun }

InitVP9 ==
    /\ InitUnpacker
    /\ frame \in VP9Frames
    /\ res = NoCall

CallGetVP9Resloution ==
    /\ res' = Result("GetVP9Resloution", GetVP9Resloution(frame))
    /\ UNCHANGED <<frame, unpackerVars>>

NextVP9 == CallGetVP9Resloution

SpecVP9 == InitVP9 /\ [][NextVP9]_vars

\* bit i of the frame, 0 past its end
Bit(f, i) == IF i \div 8 < Len(f) THEN (f[i \div 8 + 1] \div 2 ^ (7 - (i % 8))) % 2 ELSE 0
\* byte k (0-based) of the frame, 0 past its end
ByteOr0(f, k) == IF k < Len(f) THEN f[k + 1] ELSE 0
\* the 16-bit MSB-first field at bit offset o, cut out of the three bytes it touches
Field16(f, o) ==
    ((ByteOr0(f, o \div 8) * 65536 + ByteOr0(f, o \div 8 + 1) * 256
        + ByteOr0(f, o \div 8 + 2)) \div 2 ^ (8 - (o % 8))) % 65536

\* bit offset of width-minus-1 fixed by the conditional walk of the header
WidthOffset(f) ==
    LET profile == 2 * Bit(f, 2) + Bit(f, 3)
        odd == profile = 1 \/ profile = 3
        a == 4 + (IF profile = 3 THEN 1 ELSE 0)
        b == a + 1 + (IF Bit(f, a) = 1 THEN 3 ELSE 0) + 3 + 24
        c == IF profile >= 2 THEN b + 1 + (IF Bit(f, b) = 1 THEN 1 ELSE 0) ELSE b
        colorSpace == 4 * Bit(f, c) + 2 * Bit(f, c + 1) + Bit(f, c + 2)
        d == c + 3 + (IF colorSpace # 7 THEN 1 + (IF odd THEN 3 ELSE 0)
                                        ELSE (IF odd THEN 1 ELSE 0))
    IN  d + 1 + (IF Bit(f, d) = 1 THEN 32 ELSE 0)

\* C8: on a header long enough to hold all fields, get_resolution returns
\* (w + 1, h + 1), each in 1..2^16, w and h being the two consecutive 16-bit
\* MSB-first fields at the offset fixed by the conditional walk.
C8_ResolutionAtWalkOffset ==
    (res.op = "GetVP9Resloution" /\ 8 * Len(frame) >= WidthOffset(frame) + 32) =>
        /\ res.err = "nil"
        /\ res.val = <<Field16(frame, WidthOffset(frame)) + 1,
                       Field16(frame, WidthOffset(frame) + 16) + 1>>
        /\ res.val[1] \in 1..65536 /\ res.val[2] \in 1..65536

\* a profile-3 sRGB header with a render size and the largest dimensions
C8_Witness ==
    /\ res.op = "GetVP9Resloution" /\ res.err = "nil"
    /\ res.val = <<65536, 720>>
    /\ 2 * Bit(frame, 2) + Bit(frame, 3) = 3
    /\ WidthOffset(frame) >= 75

(***************************************************************************)
(* Claims about the depacketizer.  A claim about one call is stated for    *)
(* every packet in every reachable state of the unpacker.                  *)
(***************************************************************************)
Frames(ev) == SelectSeq(ev, LAMBDA e : e.kind = "frame")
Observed(ev) == SelectSeq(ev, LAMBDA e : e.kind = "rtp")
Last(sq) == sq[Len(sq)]
NonEmpty(p) == Len(p.payload) > 0
Truncated(p) == Len(p.payload) < DescriptorLength(p.payload)

\* C1: a packet with a non-empty payload and the marker set makes the call end
\* with the frame callback (buffer plus this packet's post-descriptor bytes,
\* the packet's timestamp, the group's lost flag) and leaves the unpacker Idle
\* with an empty buffer.
C1_MarkerEmitsAndIdles ==
    (arrived.marker = 1 /\ ~arrived.empty) =>
        /\ Len(events) > 0
        /\ Last(events).kind = "frame"
        /\ Last(events).ts = timestamp
        /\ Last(events).lost = lost
        /\ Len(ended) > 0
        /\ Last(events).bytes = Last(ended).bytes
        /\ frameBuffer = <<>>
        /\ ~building

\* C2: a non-empty packet of another timestamp arriving while Building with a
\* non-empty buffer flushes the previous group (its bytes, its timestamp,
\* lost = TRUE) before anything of the new packet is stored, and the new
\* group holds only what the new packet brings: its timestamp, its sequence
\* number, its post-descriptor bytes, and a lost flag owed to it alone.
C2_ImplicitBoundaryFlush ==
    \A p \in Packets :
        (NonEmpty(p) /\ building /\ Len(frameBuffer) > 0 /\ p.ts # timestamp) =>
        \A r \in {UnPack(Unpacker, p)} :
            /\ Len(r.events) >= 2
            /\ r.events[1].kind = "rtp"
            /\ r.events[2] = FrameEvent(Bytes(frameBuffer), timestamp, TRUE)
            /\ r.u.timestamp = p.ts
            /\ r.u.lastSequence = p.seq
            /\ r.u.lost = (r.err = "nil" /\ Truncated(p))
            /\ \A i \in 1..Len(r.u.frameBuffer) : r.u.frameBuffer[i].ts = p.ts
            /\ IF r.u.building
               THEN /\ Len(r.events) = 2
                    /\ Bytes(r.u.frameBuffer) = PostDescriptor(p.payload)
               ELSE /\ Len(r.events) = 3
                    /\ r.events[3] = FrameEvent(PostDescriptor(p.payload), p.ts, r.u.lost)
                    /\ r.u.frameBuffer = <<>>

C2_Witness ==
    /\ Len(events) = 2
    /\ events[2].kind = "frame" /\ events[2].lost /\ events[2].ts # timestamp
    /\ Len(events[2].bytes) > 0
    /\ building /\ ~lost /\ Len(frameBuffer) > 0

\* C3 as stated: the last call made exactly one frame callback for each group
\* it ended (by marker, or by a packet of another timestamp), in the order
\* the groups started.
C3_OncePerEndedGroup ==
    /\ Len(Frames(events)) = Len(ended)
    /\ \A i \in 1..Len(ended) : i <= Len(Frames(events)) => Frames(events)[i].ts = ended[i].ts

Emitting(e) == ~(e.by = "timestamp" /\ e.empty)

\* C3 amended: one frame callback for each group the call ended, except that a
\* group ended by a packet of another timestamp while its buffer was empty
\* gets none; never two for one group; callbacks in the order the groups
\* started.
C3_OncePerEmittingGroup ==
    /\ Len(Frames(events)) = Len(SelectSeq(ended, Emitting))
    /\ \A i \in 1..Len(Frames(events)) :
           Frames(events)[i].ts = SelectSeq(ended, Emitting)[i].ts
    /\ Len(ended) = 2 => (ended[1].by = "timestamp" /\ ended[2].by = "marker")

C3_Witness ==
    /\ Len(ended) = 1 /\ ended[1].by = "timestamp" /\ ended[1].empty
    /\ Len(events) = 1 /\ events[1].kind = "rtp"
    /\ building

\* C4: a non-empty payload shorter than the descriptor its bits announce is
\* not a hard error: the call returns nil, sets lost, appends nothing and
\* still does the marker handling.
C4_TruncatedDescriptorAbsorbed ==
    (~arrived.empty /\ arrived.truncated) =>
        /\ err = "nil"
        /\ lost
        /\ Bytes(frameBuffer) = groupBytes
        /\ arrived.marker = 1 =>
               /\ ~building
               /\ frameBuffer = <<>>
               /\ Len(events) > 0
               /\ Last(events).kind = "frame" /\ Last(events).lost

\* C5: for a packet continuing the group, the continuity check sets lost
\* exactly when seq # (lastSequence + 1) mod 2^16; lastSequence becomes the
\* packet's sequence number on every return path; lost is never cleared by a
\* continuing packet, and beyond a gap only a truncated descriptor sets it.
C5_SequenceContinuity ==
    \A p \in Packets : (NonEmpty(p) /\ Continues(Unpacker, p)) =>
        \A r \in {UnPack(Unpacker, p)} :
            /\ StartOrContinue(Unpacker, p).u.lost
                   = (lost \/ p.seq # (lastSequence + 1) % 65536)
            /\ r.u.lastSequence = p.seq
            /\ lost => r.u.lost
            /\ r.u.lost = (lost \/ p.seq # (lastSequence + 1) % 65536
                                \/ (r.err = "nil" /\ Truncated(p)))
            /\ Len(Frames(r.events)) > 0 => Last(r.events).lost = r.u.lost

\* a group of at least two packets whose last sequence number is 0 and which
\* is not lost: the packet before it carried 65535
C5_Witness ==
    /\ building /\ groupCount >= 2 /\ lastSequence = 0 /\ ~lost
    /\ Len(frameBuffer) > 0

\* C6: an empty payload returns an error, changes nothing and calls nothing;
\* a non-empty payload calls the raw-packet observer exactly once, first.
C6_EmptyPayloadNoEffect ==
    \A p \in Packets : \A r \in {UnPack(Unpacker, p)} :
        IF NonEmpty(p)
        THEN /\ Len(Observed(r.events)) = 1
             /\ r.events[1].kind = "rtp" /\ r.events[1].ts = p.ts
        ELSE /\ r.err # "nil"
             /\ r.u = Unpacker
             /\ r.events = <<>>

C6_Witness ==
    /\ err = "vp8 rtp packet payload is empty"
    /\ events = <<>>
    /\ building /\ Len(frameBuffer) > 0 /\ groupCount >= 1

\* C9: the buffer is non-empty only while building, and each of its bytes
\* came from a packet of the current timestamp and has not been handed to
\* the frame callback.
C9_BufferBelongsToGroup ==
    /\ Len(frameBuffer) > 0 => building
    /\ \A i \in 1..Len(frameBuffer) :
           frameBuffer[i].ts = timestamp /\ frameBuffer[i].fresh

C9_Witness ==
    /\ building /\ groupCount >= 2
    /\ Len(frameBuffer) > MaxData

\* C10: every emitted frame is the concatenation, in arrival order, of
\* payload[d:] over the group's packets with len(payload) >= d, d being the
\* descriptor length announced by the payload's bits; the buffer holds that
\* concatenation for the open group.
C10_FrameIsConcatenation ==
    /\ Bytes(frameBuffer) = groupBytes
    /\ Len(Frames(events)) = Len(SelectSeq(ended, Emitting))
    /\ \A i \in 1..Len(Frames(events)) :
           Frames(events)[i].bytes = SelectSeq(ended, Emitting)[i].bytes

C10_Witness ==
    \E i \in 1..Len(events) :
        /\ events[i].kind = "frame" /\ ~events[i].lost
        /\ Len(events[i].bytes) > MaxData

====
